---- MODULE Spec2Model ----
(***************************************************************************)
(* A state-machine model of src/accessories/WizBulb/pilot.ts: the cached   *)
(* getPilot / setPilot layer of the WiZ bulb accessory.                    *)
(*                                                                         *)
(* JavaScript values are modelled as follows.  A property value is a       *)
(* sequence: <<>> is `undefined`, <<v>> is the value v.  An object is a    *)
(* function from property names to such values, so that object spread,     *)
(* `delete` and `in` keep their meaning.  The error argument of a callback *)
(* is a string, "null" standing for `null`.                                *)
(***************************************************************************)
EXTENDS Integers, Sequences, FiniteSets, TLC

VARIABLES
  cachedPilot,   \* the module-level cache: mac -> Pilot, a partial map
  device,        \* the Device the accessory was built for (mac + capabilities)
  alRegistered,  \* macs having an entry in disabledAdaptiveLightingCallback
  gets,          \* one record per getPilot call (its closure variables)
  sets,          \* one record per setPilot call (its closure variables)
  last,          \* what the last handler did: the calls it made, in order
  hist           \* history, kept when hist.on: which states are known good

vars == <<cachedPilot, device, alRegistered, gets, sets, last, hist>>

----------------------------------------------------------------------------
(* Bounds of the model *)

\* getPilot and setPilot calls made in one run
MaxCalls == 3

----------------------------------------------------------------------------
(* JavaScript values *)

Undefined == <<>>
Val(v) == <<v>>
Null == "null"

\* obj.f : undefined when the object has no such property
Field(obj, f) == IF f \in DOMAIN obj THEN obj[f] ELSE Undefined

\* a ?? b
Coalesce(a, b) == IF a = Undefined THEN b ELSE a

\* { ...a, ...b }
Spread(a, b) ==
  [f \in DOMAIN a \cup DOMAIN b |-> IF f \in DOMAIN b THEN b[f] ELSE a[f]]

\* cache[mac] = pilot
Put(cache, mac, pilot) ==
  [m \in DOMAIN cache \cup {mac} |-> IF m = mac THEN pilot ELSE cache[m]]

\* delete cache[mac]
Delete(cache, mac) == [m \in DOMAIN cache \ {mac} |-> cache[m]]

\* the empty object {}
EmptyCache == [m \in {} |-> 0]

----------------------------------------------------------------------------
(* The values the environment supplies *)

Mac == "AA"

\* States the bulb may report through the transport
TransportPilots ==
  { [mac |-> Val(Mac), rssi |-> Val(-60), src |-> Val("udp"), state |-> Val(TRUE),
     sceneId |-> Val(0), dimming |-> Val(50),
     r |-> Val(255), g |-> Val(0), b |-> Val(0)],
    [mac |-> Val(Mac), rssi |-> Val(-60), src |-> Val("udp"), state |-> Val(TRUE),
     sceneId |-> Val(0), dimming |-> Val(50),
     r |-> Val(0), g |-> Val(255), b |-> Val(0)],
    [mac |-> Val(Mac), rssi |-> Val(-60), src |-> Val("udp"), state |-> Val(TRUE),
     sceneId |-> Val(0), dimming |-> Val(50), temp |-> Val(2700)],
    [mac |-> Val(Mac), rssi |-> Val(-60), src |-> Val("udp"),
     sceneId |-> Val(4), temp |-> Val(4000)] }

\* Errors the transport may report
TransportErrors == {"transport error"}

TimeoutError == "No response within 1s"

\* Partial changes callers pass to setPilot
Partials ==
  { [dimming |-> Val(80)],
    [state |-> Val(FALSE)],
    [temp |-> Val(2700), r |-> Undefined, g |-> Undefined, b |-> Undefined],
    [r |-> Val(0), g |-> Val(0), b |-> Val(255), temp |-> Undefined] }

Devices ==
  { [mac |-> Mac, isTW |-> tw, isRGB |-> rgb] : tw \in BOOLEAN, rgb \in BOOLEAN }

----------------------------------------------------------------------------
(* Records *)

\* calls made so far
NumCalls ==
  Cardinality({g \in DOMAIN gets : gets[g].started})
  + Cardinality({s \in DOMAIN sets : sets[s].status # "idle"})

IdleGet ==
  [started |-> FALSE, callbacked |-> FALSE, timer |-> "none",
   transport |-> "none", events |-> <<>>, nSuccess |-> 0, nError |-> 0]

IdleSet ==
  [status |-> "idle", oldPilot |-> <<>>, nCallback |-> 0]

\* History: the states read from the device or acknowledged by a successful
\* set, the entry each set wrote, whether a set was called while another was
\* pending.
NoHistory(on) ==
  [on |-> on, knownGood |-> {}, overlapped |-> FALSE,
   written |-> [s \in 1..MaxCalls |-> <<>>]]

Record(h) == IF hist.on THEN h ELSE hist

\* A handler that called nothing
Quiet(op, id) ==
  [op |-> op, id |-> id, error |-> Null, pilot |-> <<>>, partial |-> <<>>,
   shouldCallback |-> FALSE,
   onSuccess |-> <<>>, onError |-> <<>>, callback |-> <<>>,
   sink |-> <<>>, al |-> FALSE, sent |-> <<>>,
   hadEntry |-> device.mac \in DOMAIN cachedPilot,
   seen |-> <<>>, next |-> <<>>, threw |-> FALSE]

----------------------------------------------------------------------------
(* updatePilot, lines 49-76.  transformOnOff & co. live in                 *)
(* ./characteristics; a pushed value records which transform was applied   *)
(* to which pilot.                                                         *)

Push(char, transform, pilot) ==
  [char |-> char, transform |-> transform, pilot |-> pilot]

PushError(char, error) == [char |-> char, error |-> error]

updatePilot(dev, pilot) ==
  <<Push("On", "transformOnOff", pilot),
    Push("Brightness", "transformDimming", pilot)>>
  \o (IF dev.isTW \/ dev.isRGB
      THEN <<Push("ColorTemperature", "transformTemperature", pilot)>>
      ELSE <<>>)
  \o (IF dev.isRGB
      THEN <<Push("Hue", "transformHue", pilot),
             Push("Saturation", "transformSaturation", pilot)>>
      ELSE <<>>)

----------------------------------------------------------------------------
(* getPilot, lines 80-130 *)

\* (variant) the flag is not consulted
ShouldCallbackAlways(callbacked) == TRUE

\* line 89
ShouldCallback(callbacked) == ~callbacked

\* (variant) the comparison is made after the new state is committed
PilotChangedAfterCommit(cache, mac, pilot) ==
  /\ mac \in DOMAIN cache
  /\ \/ Field(pilot, "sceneId") # Val(0)
     \/ \E f \in {"r", "g", "b", "temp"} :
          Field(pilot, f) # Field(Put(cache, mac, pilot)[mac], f)

\* (variant) the scene id is left out of the condition
PilotChangedColorsOnly(cache, mac, pilot) ==
  /\ mac \in DOMAIN cache
  /\ \E f \in {"r", "g", "b", "temp"} :
       Field(pilot, f) # Field(cache[mac], f)

\* lines 101-109: the condition guarding the adaptive-lighting callback
PilotChanged(cache, mac, pilot) ==
  /\ mac \in DOMAIN cache
  /\ \/ Field(pilot, "sceneId") # Val(0)
     \/ Field(pilot, "r") # Field(cache[mac], "r")
     \/ Field(pilot, "g") # Field(cache[mac], "g")
     \/ Field(pilot, "b") # Field(cache[mac], "b")
     \/ Field(pilot, "temp") # Field(cache[mac], "temp")

\* line 110: disabledAdaptiveLightingCallback[device.mac]?.()
CallsAdaptiveLighting(cache, mac, pilot) ==
  PilotChanged(cache, mac, pilot) /\ mac \in alRegistered

\* (variant) an error leaves the entry in place
OnDoneCacheKeepsOnError(cache, mac, error, pilot) ==
  IF error # Null THEN cache ELSE Put(cache, mac, pilot)

\* lines 97 and 112: what onDone leaves in the cache
OnDoneCache(cache, mac, error, pilot) ==
  IF error # Null THEN Delete(cache, mac) ELSE Put(cache, mac, pilot)

\* (variant) a late state refreshes the On characteristic only
OnDoneSinkOnOnly(dev, error, pilot) ==
  IF error # Null THEN <<PushError("On", error)>>
  ELSE <<Push("On", "transformOnOff", pilot)>>

\* (variant) a late error is surfaced through updatePilot's refresh of every
\* characteristic instead of the single push on On
OnDoneSinkErrorEverywhere(dev, error, pilot) ==
  IF error # Null
  THEN <<PushError("On", error), PushError("Brightness", error)>>
  ELSE updatePilot(dev, pilot)

\* lines 95 and 116: what onDone pushes when the caller was already notified
OnDoneSink(dev, error, pilot) ==
  IF error # Null THEN <<PushError("On", error)>> ELSE updatePilot(dev, pilot)

\* lines 88-118: onDone, run from `source` (the timer or the transport)
onDone(g, source, error, pilot, timer, transport) ==
  LET shouldCallback == ShouldCallback(gets[g].callbacked)
      mac == device.mac
  IN /\ gets' = [gets EXCEPT ![g] =
                   [@ EXCEPT !.callbacked = TRUE,
                             !.timer = timer,
                             !.transport = transport,
                             !.events = Append(@, source),
                             !.nSuccess = @ + (IF error = Null /\ shouldCallback
                                               THEN 1 ELSE 0),
                             !.nError = @ + (IF error # Null /\ shouldCallback
                                             THEN 1 ELSE 0)]]
     /\ cachedPilot' = OnDoneCache(cachedPilot, mac, error, pilot)
     /\ last' = [Quiet(source, g) EXCEPT
                   !.error = error,
                   !.pilot = IF error = Null THEN <<pilot>> ELSE <<>>,
                   !.shouldCallback = shouldCallback,
                   !.onSuccess = IF error = Null /\ shouldCallback
                                 THEN <<pilot>> ELSE <<>>,
                   !.onError = IF error # Null /\ shouldCallback
                               THEN <<error>> ELSE <<>>,
                   !.sink = IF shouldCallback THEN <<>>
                            ELSE OnDoneSink(device, error, pilot),
                   !.al = error = Null
                          /\ CallsAdaptiveLighting(cachedPilot, mac, pilot)]
     /\ hist' = Record(IF source = "transport" /\ error = Null
                       THEN [hist EXCEPT !.knownGood = @ \cup {pilot}]
                       ELSE hist)
     /\ UNCHANGED <<device, alRegistered, sets>>

\* (variant) the call queries the transport without arming the timer
GetPilotNoTimer(g) ==
  /\ NumCalls < MaxCalls
  /\ ~gets[g].started
  /\ \A h \in 1..(g - 1) : gets[h].started
  /\ gets' = [gets EXCEPT ![g] =
                [@ EXCEPT !.started = TRUE, !.transport = "pending"]]
  /\ last' = Quiet("getPilot", g)
  /\ UNCHANGED <<cachedPilot, device, alRegistered, sets, hist>>

\* lines 87, 119, 126: the call itself arms the timer and queries the transport
GetPilot(g) ==
  /\ NumCalls < MaxCalls
  /\ ~gets[g].started
  /\ \A h \in 1..(g - 1) : gets[h].started
  /\ gets' = [gets EXCEPT ![g] =
                [@ EXCEPT !.started = TRUE, !.timer = "armed",
                          !.transport = "pending"]]
  /\ last' = Quiet("getPilot", g)
  /\ UNCHANGED <<cachedPilot, device, alRegistered, sets, hist>>

\* the empty object, what `undefined as any` stands for where a pilot is read
NoPilot == [f \in {} |-> Undefined]

\* (variant) the handler resolves from the cache without looking for the entry
TimeoutResultUnchecked(cache, mac) ==
  [error |-> Null,
   pilot |-> IF mac \in DOMAIN cache THEN cache[mac] ELSE NoPilot]

\* (variant) the handler reports the timeout whatever the cache holds
TimeoutResultAlwaysError(cache, mac) ==
  [error |-> TimeoutError, pilot |-> NoPilot]

\* lines 120-124: the arguments the timer's handler passes to onDone
TimeoutResult(cache, mac) ==
  IF mac \in DOMAIN cache
  THEN [error |-> Null, pilot |-> cache[mac]]
  ELSE [error |-> TimeoutError, pilot |-> NoPilot]

\* lines 119-125: the timer's handler
TimeoutFire(g) ==
  /\ gets[g].timer = "armed"
  /\ onDone(g, "timeout", TimeoutResult(cachedPilot, device.mac).error,
            TimeoutResult(cachedPilot, device.mac).pilot,
            "fired", gets[g].transport)

\* (variant) the transport's callback leaves the timer alone
ClearTimeoutMissing(timer) == timer

\* line 127: clearTimeout(timeout) cancels a timer that has not fired
ClearTimeout(timer) == IF timer = "armed" THEN "cleared" ELSE timer

\* lines 126-129: the transport's completion callback
TransportDone(g) ==
  /\ gets[g].transport = "pending"
  /\ \/ \E pilot \in TransportPilots :
          onDone(g, "transport", Null, pilot,
                 ClearTimeout(gets[g].timer), "done")
     \/ \E error \in TransportErrors :
          onDone(g, "transport", error, NoPilot,
                 ClearTimeout(gets[g].timer), "done")

----------------------------------------------------------------------------
(* pilotToColor and updateColorTemp, lines 163-204.  The colour conversions *)
(* live in ../../util/color; a pushed value records which conversion was    *)
(* applied to which colour.                                                 *)

\* Number(x) || 0
NumberOrZero(x) == Coalesce(x, Val(0))

\* lines 163-176: the branch taken and the values handed to the conversions
pilotToColor(pilot) ==
  IF Field(pilot, "temp") # Undefined
  THEN [from |-> "temp", temp |-> Field(pilot, "temp")]
  ELSE [from |-> "rgb",
        r |-> NumberOrZero(Field(pilot, "r")),
        g |-> NumberOrZero(Field(pilot, "g")),
        b |-> NumberOrZero(Field(pilot, "b"))]

\* lines 188-199: the pushes of the colour refresh
ColorRefresh(dev, pilot) ==
  <<Push("ColorTemperature", "kelvinToMired", pilotToColor(pilot))>>
  \o (IF dev.isRGB
      THEN <<Push("Saturation", "saturation", pilotToColor(pilot)),
             Push("Hue", "hue", pilotToColor(pilot))>>
      ELSE <<>>)

\* line 188 reads cachedPilot[device.mac].temp: a TypeError when the cache has
\* no entry for the device
ReadsCache(dev, error) == dev.isTW /\ error = Null

\* lines 185-203: the continuation, run with `error` while the cache is `cache`:
\* whether it threw, what it pushed, what it passed to next
updateColorTemp(dev, cache, error) ==
  IF ReadsCache(dev, error) /\ dev.mac \notin DOMAIN cache
  THEN [threw |-> TRUE, sink |-> <<>>, next |-> <<>>]
  ELSE [threw |-> FALSE,
        sink |-> IF ReadsCache(dev, error)
                 THEN ColorRefresh(dev, cache[dev.mac]) ELSE <<>>,
        next |-> <<error>>]

----------------------------------------------------------------------------
(* setPilot, lines 132-161 *)

DefaultState == FALSE
DefaultDimming == 10

\* lines 142-149
OldPilotValues(oldPilot) ==
  [state |-> Coalesce(Field(oldPilot, "state"), Val(DefaultState)),
   dimming |-> Coalesce(Field(oldPilot, "dimming"), Val(DefaultDimming)),
   temp |-> Field(oldPilot, "temp"),
   r |-> Field(oldPilot, "r"),
   g |-> Field(oldPilot, "g"),
   b |-> Field(oldPilot, "b")]

\* (variant) only the partial change is sent
NewPilotPartialOnly(oldPilot, pilot) == pilot

\* lines 150-153
NewPilot(oldPilot, pilot) == Spread(OldPilotValues(oldPilot), pilot)

\* (variant) the cache keeps the old entry until the transport answers
OptimisticPilotDeferred(oldPilot, pilot) == oldPilot

\* (variant) a change of colour or temperature ends the scene in the cache
OptimisticPilotClearsScene(oldPilot, pilot) ==
  IF \E f \in {"r", "g", "b", "temp"} :
       Field(NewPilot(oldPilot, pilot), f) # Field(oldPilot, f)
  THEN Spread(Spread(oldPilot, NewPilot(oldPilot, pilot)), [sceneId |-> Val(0)])
  ELSE Spread(oldPilot, NewPilot(oldPilot, pilot))

\* line 154
OptimisticPilot(oldPilot, pilot) == Spread(oldPilot, NewPilot(oldPilot, pilot))

\* (variant) the early return reports success to the caller
SetPilotSkipCallsBack(s, pilot) ==
  /\ sets' = [sets EXCEPT ![s] =
                [@ EXCEPT !.status = "skipped", !.nCallback = @ + 1]]
  /\ last' = [Quiet("setPilot", s) EXCEPT
                !.partial = <<pilot>>, !.callback = <<Null>>]
  /\ UNCHANGED <<cachedPilot, device, alRegistered, gets, hist>>

\* (variant) without an entry the partial change becomes the entry
SetPilotSkipCreates(s, pilot) ==
  /\ cachedPilot' = Put(cachedPilot, device.mac, pilot)
  /\ sets' = [sets EXCEPT ![s] = [@ EXCEPT !.status = "skipped"]]
  /\ last' = [Quiet("setPilot", s) EXCEPT !.partial = <<pilot>>]
  /\ UNCHANGED <<device, alRegistered, gets, hist>>

\* lines 139-141: what the call does when the cache has no entry
SetPilotSkip(s, pilot) ==
  /\ sets' = [sets EXCEPT ![s] = [@ EXCEPT !.status = "skipped"]]
  /\ last' = [Quiet("setPilot", s) EXCEPT !.partial = <<pilot>>]
  /\ UNCHANGED <<cachedPilot, device, alRegistered, gets, hist>>

\* lines 142-155: merge, write the cache, send
SetPilotSend(s, pilot) ==
  LET oldPilot == cachedPilot[device.mac]
      newPilot == NewPilot(oldPilot, pilot)
  IN /\ cachedPilot' = Put(cachedPilot, device.mac,
                           OptimisticPilot(oldPilot, pilot))
     /\ sets' = [sets EXCEPT ![s] =
                   [@ EXCEPT !.status = "pending", !.oldPilot = <<oldPilot>>]]
     /\ last' = [Quiet("setPilot", s) EXCEPT
                   !.partial = <<pilot>>, !.sent = <<newPilot>>]
     /\ hist' = Record([hist EXCEPT
                   !.written[s] = <<OptimisticPilot(oldPilot, pilot)>>,
                   !.overlapped = @ \/ \E t \in 1..MaxCalls :
                                         sets[t].status = "pending"])
     /\ UNCHANGED <<device, alRegistered, gets>>

SetPilot(s) ==
  /\ NumCalls < MaxCalls
  /\ sets[s].status = "idle"
  /\ \A t \in 1..(s - 1) : sets[t].status # "idle"
  /\ \E pilot \in Partials :
       IF device.mac \in DOMAIN cachedPilot
       THEN SetPilotSend(s, pilot)
       ELSE SetPilotSkip(s, pilot)

\* (variant) the rollback is skipped when the entry is gone
SetDoneCacheIfPresent(cache, mac, error, oldPilot) ==
  IF error # Null /\ mac \in DOMAIN cache
  THEN Put(cache, mac, oldPilot) ELSE cache

\* (variant) the old entry is written back whatever the transport answers
SetDoneCacheAlways(cache, mac, error, oldPilot) == Put(cache, mac, oldPilot)

\* (variant) a failure leaves the cache as the set wrote it
SetDoneCacheNoRollback(cache, mac, error, oldPilot) == cache

\* lines 156-158: the cache after the transport's answer
SetDoneCache(cache, mac, error, oldPilot) ==
  IF error # Null THEN Put(cache, mac, oldPilot) ELSE cache

\* line 159: the cache the callback finds, the rollback being done
CallbackCache(cache, mac, error, oldPilot) ==
  SetDoneCache(cache, mac, error, oldPilot)

\* line 159: callback(error).  The callback the accessory passes to setPilot
\* is the continuation updateColorTemp(device, service, wiz, next); on a device
\* without tunable white it does what a bare next does.
RunCallback(dev, cache, error) == updateColorTemp(dev, cache, error)

\* lines 155-160: the transport's completion callback
SetDone(s) ==
  /\ sets[s].status = "pending"
  /\ \E error \in {Null} \cup TransportErrors :
       LET oldPilot == sets[s].oldPilot[1]
           seen == CallbackCache(cachedPilot, device.mac, error, oldPilot)
           ran == RunCallback(device, seen, error)
       IN /\ cachedPilot' = SetDoneCache(cachedPilot, device.mac, error,
                                         oldPilot)
          /\ sets' = [sets EXCEPT ![s] =
                        [@ EXCEPT !.status = "done", !.oldPilot = <<>>,
                                  !.nCallback = @ + 1]]
          /\ last' = [Quiet("setDone", s) EXCEPT
                        !.error = error, !.callback = <<error>>,
                        !.seen = IF device.mac \in DOMAIN seen
                                 THEN <<seen[device.mac]>> ELSE <<>>,
                        !.sink = ran.sink, !.next = ran.next,
                        !.threw = ran.threw]
          /\ hist' = Record([hist EXCEPT
                              !.written[s] = <<>>,
                              !.knownGood = IF error = Null
                                            THEN @ \cup {hist.written[s][1]}
                                            ELSE @])
  /\ UNCHANGED <<device, alRegistered, gets>>

----------------------------------------------------------------------------
(* The specification *)

Start ==
  /\ cachedPilot = EmptyCache
  /\ device \in Devices
  /\ alRegistered \in SUBSET {Mac}
  /\ gets = [g \in 1..MaxCalls |-> IdleGet]
  /\ sets = [s \in 1..MaxCalls |-> IdleSet]
  /\ last = Quiet("init", 0)

Init == Start /\ hist = NoHistory(FALSE)

\* The registry plays no part in what the cache holds: the history is recorded
\* for the accessory whose callback is registered.
HistInit == Start /\ alRegistered = {Mac} /\ hist = NoHistory(TRUE)

Next ==
  \/ \E g \in 1..MaxCalls : GetPilot(g)
  \/ \E g \in 1..MaxCalls : TimeoutFire(g)
  \/ \E g \in 1..MaxCalls : TransportDone(g)
  \/ \E s \in 1..MaxCalls : SetPilot(s)
  \/ \E s \in 1..MaxCalls : SetDone(s)

Spec == Init /\ [][Next]_vars

\* The same program, its history recorded
HistSpec == HistInit /\ [][Next]_vars

\* An armed timer that is not cleared fires; the transport may stay silent.
LiveSpec == Spec /\ \A g \in 1..MaxCalls : WF_vars(TimeoutFire(g))

----------------------------------------------------------------------------
(* Properties *)

\* how often the caller of get g was notified
Notified(g) == gets[g].nSuccess + gets[g].nError

\* the handler that ran last was onDone
LastIsOnDone == last.op \in {"timeout", "transport"}

ColorFields == {"state", "dimming", "temp", "r", "g", "b"}

\* C1: for every getPilot call, whatever the order of the transport's
\* completion and the timeout, and with several gets in flight at once, onSuccess
\* and onError are together invoked at most once.
C1_AtMostOneDelivery ==
  /\ \A g \in 1..MaxCalls : Notified(g) <= 1
  /\ Len(last.onSuccess) + Len(last.onError) <= 1

\* C1 witness: onDone has run twice for one get while another get, already
\* resolved by its own timeout, still waits for the transport.
C1_Witness ==
  \E g, h \in 1..MaxCalls :
    /\ g # h
    /\ Len(gets[g].events) = 2
    /\ gets[h].events = <<"timeout">>
    /\ gets[h].transport = "pending"
    /\ Notified(g) = 1 /\ Notified(h) = 1

\* C2: every getPilot call eventually has notified its caller exactly once, and
\* it stays so, whether the transport calls back or not, provided an armed
\* timer that is not cleared fires: from some point on, every call made has
\* notified its caller exactly once.
C2_EventuallyNotifiedOnce ==
  <>[](\A g \in 1..MaxCalls : gets[g].started => Notified(g) = 1)

\* C2 witness: the transport of a get has not called back, its timer has fired
\* and the caller has been notified once.
C2_Witness ==
  \E g \in 1..MaxCalls :
    /\ gets[g].transport = "pending"
    /\ gets[g].timer = "fired"
    /\ Notified(g) = 1

\* C3: when the timer fires with no cache entry for the device (the transport
\* has not called back), the caller gets an error through onError, never
\* onSuccess, and the cache still has no entry for the device.
C3_TimeoutEmptyCache ==
  [][(last'.op = "timeout" /\ device.mac \notin DOMAIN cachedPilot) =>
       /\ last'.onError = <<TimeoutError>>
       /\ last'.onSuccess = <<>>
       /\ gets'[last'.id].nError = 1
       /\ gets'[last'.id].nSuccess = 0
       /\ gets'[last'.id].transport = "pending"
       /\ device.mac \notin DOMAIN cachedPilot']_vars

\* C3 witness: a timer has fired and reported the timeout, the transport being
\* silent.
C3_Witness ==
  /\ last.op = "timeout"
  /\ last.onError = <<TimeoutError>>
  /\ gets[last.id].transport = "pending"
  /\ device.mac \notin DOMAIN cachedPilot

\* C4: when the timer fires before the transport completes and the cache holds
\* an entry for the device, exactly that entry is passed to onSuccess and the
\* cache entry afterwards equals the entry before.
C4_TimeoutCacheFallback ==
  [][(last'.op = "timeout" /\ device.mac \in DOMAIN cachedPilot) =>
       /\ last'.onSuccess = <<cachedPilot[device.mac]>>
       /\ last'.onError = <<>>
       /\ gets'[last'.id].nSuccess = 1
       /\ gets'[last'.id].transport = "pending"
       /\ cachedPilot' = cachedPilot]_vars

\* C4 witness: a timer has fired and the caller got a pilot, the transport not
\* having completed.
C4_Witness ==
  /\ last.op = "timeout"
  /\ last.onSuccess # <<>>
  /\ gets[last.id].transport = "pending"
  /\ device.mac \in DOMAIN cachedPilot
  /\ last.onSuccess = <<cachedPilot[device.mac]>>

\* C5: when the transport completes successfully after the timeout has already
\* resolved the get, the caller is not invoked again; the late state becomes
\* the device's cache entry and is pushed to the presentation sink by
\* updatePilot (On and Brightness at least, every push carrying the late state).
C5_LateSuccess ==
  (last.op = "transport" /\ last.error = Null /\ ~last.shouldCallback) =>
    /\ last.onSuccess = <<>>
    /\ last.onError = <<>>
    /\ Notified(last.id) = 1
    /\ device.mac \in DOMAIN cachedPilot
    /\ cachedPilot[device.mac] = last.pilot[1]
    /\ {"On", "Brightness"} \subseteq
         {last.sink[i].char : i \in 1..Len(last.sink)}
    /\ \A i \in 1..Len(last.sink) :
         /\ "pilot" \in DOMAIN last.sink[i]
         /\ last.sink[i].pilot = last.pilot[1]

\* C5 witness: a late state arrived for a get the cache had answered.
C5_Witness ==
  /\ last.op = "transport"
  /\ last.error = Null
  /\ gets[last.id].events = <<"timeout", "transport">>
  /\ gets[last.id].nSuccess = 1
  /\ last.sink # <<>>

\* C6: when the transport reports an error after the timeout has already
\* resolved the get with the cached value, onError is not invoked; the error
\* goes to the presentation sink only, as the value of one push.
C6_LateError ==
  (/\ last.op = "transport"
   /\ last.error # Null
   /\ gets[last.id].events = <<"timeout", "transport">>
   /\ gets[last.id].nSuccess = 1) =>
    /\ last.onError = <<>>
    /\ last.onSuccess = <<>>
    /\ gets[last.id].nError = 0
    /\ last.sink = <<PushError("On", last.error)>>

\* C6 witness: a transport error arrived for a get the cache had answered.
C6_Witness ==
  /\ last.op = "transport"
  /\ last.error \in TransportErrors
  /\ gets[last.id].events = <<"timeout", "transport">>
  /\ gets[last.id].nSuccess = 1
  /\ last.sink # <<>>

\* C7: on every error path of a get (transport error first, timeout on an
\* empty cache, transport error after the timeout), the device has no cache
\* entry right after the error is handled.
C7_ErrorInvalidatesCache ==
  (LastIsOnDone /\ last.error # Null) => device.mac \notin DOMAIN cachedPilot

\* C7 witness: a transport error arrived after the timeout had resolved the
\* get from the cache.
C7_Witness ==
  /\ last.op = "transport"
  /\ last.error # Null
  /\ ~last.shouldCallback
  /\ gets[last.id].nSuccess = 1

\* C8: when the transport completes a get before the timer fires, the timer is
\* cancelled and its handler never runs for that get: onDone runs once.
C8_TimeoutCancelled ==
  \A g \in 1..MaxCalls :
    (gets[g].events # <<>> /\ gets[g].events[1] = "transport") =>
      /\ gets[g].events = <<"transport">>
      /\ gets[g].timer = "cleared"

\* C8 witness: a get completed by the transport, after which other handlers
\* have run.
C8_Witness ==
  \E g \in 1..MaxCalls :
    /\ gets[g].events = <<"transport">>
    /\ ~(LastIsOnDone /\ last.id = g)
    /\ last.op # "getPilot"

\* C9: setPilot for a device without a cache entry sends nothing to the
\* transport, never invokes the callback and leaves the cache unchanged.
C9_SetWithoutCacheIsNoOp ==
  [][/\ (last'.op = "setPilot" /\ device.mac \notin DOMAIN cachedPilot) =>
          /\ last'.sent = <<>>
          /\ last'.callback = <<>>
          /\ cachedPilot' = cachedPilot
          /\ sets'[last'.id].status = "skipped"
     /\ \A s \in 1..MaxCalls :
          sets[s].status = "skipped" =>
            /\ sets'[s] = sets[s]
            /\ sets[s].nCallback = 0]_vars

\* C9 witness: a set was skipped and other handlers have run since.
C9_Witness ==
  \E s \in 1..MaxCalls :
    /\ sets[s].status = "skipped"
    /\ last.op # "setPilot"
    /\ device.mac \in DOMAIN cachedPilot

\* C10: the state setPilot sends has, for each of state, dimming, temp, r, g,
\* b, the partial's value when the partial names the field and the cached value
\* otherwise, state defaulting to false and dimming to 10 when the cache lacks
\* them.
C10_MergedState ==
  [][(last'.op = "setPilot" /\ device.mac \in DOMAIN cachedPilot) =>
       /\ Len(last'.sent) = 1
       /\ \A f \in ColorFields :
            Field(last'.sent[1], f) =
              IF f \in DOMAIN last'.partial[1] THEN last'.partial[1][f]
              ELSE IF f = "state" /\ Field(cachedPilot[device.mac], f) = Undefined
                THEN Val(FALSE)
              ELSE IF f = "dimming"
                      /\ Field(cachedPilot[device.mac], f) = Undefined
                THEN Val(10)
              ELSE Field(cachedPilot[device.mac], f)]_vars

\* C10 witness: the partial is {dimming: 80} and the state sent is
\* {state: true, dimming: 80, r: 255, g: 0, b: 0}, temp staying unset.
C10_Witness ==
  /\ last.op = "setPilot"
  /\ last.partial = <<[dimming |-> Val(80)]>>
  /\ Len(last.sent) = 1
  /\ Field(last.sent[1], "dimming") = Val(80)
  /\ Field(last.sent[1], "state") = Val(TRUE)
  /\ Field(last.sent[1], "r") = Val(255)
  /\ Field(last.sent[1], "g") = Val(0)
  /\ Field(last.sent[1], "b") = Val(0)
  /\ Field(last.sent[1], "temp") = Undefined

\* C10 witness of the defaults: the state sent carries the defaults while the
\* cache entry, which keeps what it had, still lacks state and dimming.
C10_DefaultsReached ==
  /\ last.op = "setPilot"
  /\ Len(last.sent) = 1
  /\ "state" \notin DOMAIN last.partial[1]
  /\ "dimming" \notin DOMAIN last.partial[1]
  /\ Field(last.sent[1], "state") = Val(FALSE)
  /\ Field(last.sent[1], "dimming") = Val(10)
  /\ Field(last.sent[1], "temp") # Undefined

OtherFields == {"mac", "rssi", "src", "sceneId"}

\* C11: setPilot overwrites the cache entry with the merged state before the
\* transport answers: right after the call the entry carries every field of
\* the state sent, the set being pending, and a timer handler that runs next
\* resolves its get with that merged entry.
C11_OptimisticWriteVisible ==
  [][/\ (last'.op = "setPilot" /\ device.mac \in DOMAIN cachedPilot) =>
          /\ sets'[last'.id].status = "pending"
          /\ device.mac \in DOMAIN cachedPilot'
          /\ \A f \in ColorFields :
               Field(cachedPilot'[device.mac], f) = Field(last'.sent[1], f)
     /\ (last.op = "setPilot" /\ Len(last.sent) = 1 /\ last'.op = "timeout") =>
          /\ sets'[last.id].status = "pending"
          /\ Len(last'.onSuccess) = 1
          /\ \A f \in ColorFields :
               Field(last'.onSuccess[1], f) = Field(last.sent[1], f)]_vars

\* C11 witness: while a set that raised dimming to 80 is pending, a timer
\* handler has handed the merged entry to its caller.
C11_Witness ==
  /\ last.op = "timeout"
  /\ Len(last.onSuccess) = 1
  /\ Field(last.onSuccess[1], "dimming") = Val(80)
  /\ \E s \in 1..MaxCalls :
       /\ sets[s].status = "pending"
       /\ Field(sets[s].oldPilot[1], "dimming") = Val(50)

\* C12: when the transport reports failure for a set, the cache entry becomes
\* exactly the entry setPilot read when it was called, whatever changed or
\* deleted the entry meanwhile, and the callback is then invoked with that
\* error, finding the restored entry.
C12_RollbackToSnapshot ==
  [][/\ (last'.op = "setPilot" /\ device.mac \in DOMAIN cachedPilot) =>
          sets'[last'.id].oldPilot = <<cachedPilot[device.mac]>>
     /\ \A s \in 1..MaxCalls :
          (sets[s].status = "pending" /\ sets'[s].status = "pending") =>
            sets'[s].oldPilot = sets[s].oldPilot
     /\ (last'.op = "setDone" /\ last'.error # Null) =>
          /\ device.mac \in DOMAIN cachedPilot'
          /\ <<cachedPilot'[device.mac]>> = sets[last'.id].oldPilot
          /\ last'.callback = <<last'.error>>
          /\ last'.seen = sets[last'.id].oldPilot]_vars

\* C12 witness: a set failed after a failed get had deleted the entry, and the
\* entry is back.
C12_Witness ==
  /\ last.op = "setDone"
  /\ last.error # Null
  /\ ~last.hadEntry
  /\ device.mac \in DOMAIN cachedPilot

\* C16: when the transport reports success for a set, the completion handler
\* leaves the cache as it was and invokes the callback once, with null.
C16_SuccessKeepsCache ==
  [][/\ (last'.op = "setDone" /\ last'.error = Null) =>
          /\ cachedPilot' = cachedPilot
          /\ last'.callback = <<Null>>
          /\ sets'[last'.id].nCallback = 1
     /\ \A s \in 1..MaxCalls : sets'[s].nCallback <= 1]_vars

\* C16 witness: a set that raised dimming to 80 succeeded and the entry still
\* carries the merged value.
C16_Witness ==
  /\ last.op = "setDone"
  /\ last.error = Null
  /\ last.callback = <<Null>>
  /\ device.mac \in DOMAIN cachedPilot
  /\ Field(cachedPilot[device.mac], "dimming") = Val(80)

AllFields == ColorFields \cup OtherFields

\* the same state, field by field
SameState(p, q) == \A f \in AllFields : Field(p, f) = Field(q, f)

\* a state read successfully from the device or acknowledged by a successful set
KnownGood(p) == \E q \in hist.knownGood : SameState(p, q)

LastSetFailed == last.op = "setDone" /\ last.error # Null

\* C13 (as stated): after a failed set, the cache entry holds a known-good
\* value, under every interleaving of overlapping sets.
C13_KnownGoodAfterFailedSet ==
  LastSetFailed =>
    /\ device.mac \in DOMAIN cachedPilot
    /\ KnownGood(cachedPilot[device.mac])

\* C13 (amended): after a failed set, the cache entry holds a known-good value
\* in every run in which no set was called while another set was pending.
C13_KnownGoodWithoutOverlap ==
  (LastSetFailed /\ ~hist.overlapped) =>
    /\ device.mac \in DOMAIN cachedPilot
    /\ KnownGood(cachedPilot[device.mac])

\* C13 witness: a set failed, no sets having overlapped, after the entry it had
\* written was deleted by a failed get.
C13_Witness ==
  /\ LastSetFailed
  /\ hist.on
  /\ ~hist.overlapped
  /\ ~last.hadEntry
  /\ device.mac \in DOMAIN cachedPilot
  /\ KnownGood(cachedPilot[device.mac])

\* the last step resolved a get successfully (transport reply or cache fallback)
GetResolved == LastIsOnDone /\ last.error = Null

GateFields == {"r", "g", "b", "temp"}

\* C14: when a get resolves successfully, the registered adaptive-lighting
\* callback is invoked exactly when an entry existed before the commit and the
\* new state has a non-zero sceneId or differs from that entry in r, g, b or
\* temp; without a previous entry it is never invoked.
C14_AdaptiveLightingGate ==
  [][GetResolved' =>
       (last'.al <=>
          /\ device.mac \in alRegistered
          /\ device.mac \in DOMAIN cachedPilot
          /\ \/ Field(last'.pilot[1], "sceneId") # Val(0)
             \/ \E f \in GateFields :
                  Field(last'.pilot[1], f) # Field(cachedPilot[device.mac], f))]_vars

\* C14 witness: the transport answered green with sceneId 0 over an entry of
\* another colour and the callback was invoked.
C14_Witness ==
  /\ last.op = "transport"
  /\ last.error = Null
  /\ last.al
  /\ Field(last.pilot[1], "sceneId") = Val(0)
  /\ Field(last.pilot[1], "g") = Val(255)

\* C19: when the timeout resolves a get from the cache, the pilot handed to the
\* resolution is the cached entry itself, so the registered adaptive-lighting
\* callback is invoked exactly when that entry's sceneId is not 0.
C19_FallbackGate ==
  [][(last'.op = "timeout" /\ last'.error = Null) =>
       /\ device.mac \in DOMAIN cachedPilot
       /\ last'.pilot = <<cachedPilot[device.mac]>>
       /\ last'.al <=>
            /\ device.mac \in alRegistered
            /\ Field(cachedPilot[device.mac], "sceneId") # Val(0)]_vars

\* C19 witness: the timeout fell back to a cached scene entry and the callback
\* was invoked.
C19_Witness ==
  /\ last.op = "timeout"
  /\ last.error = Null
  /\ last.al
  /\ Field(last.pilot[1], "sceneId") = Val(4)

\* the entry of the device is absent before the step and present after it
EntryAppears ==
  device.mac \notin DOMAIN cachedPilot /\ device.mac \in DOMAIN cachedPilot'

\* a failed read removes the entry and changes nothing else
FailedReadOnlyDeletes ==
  (LastIsOnDone' /\ last'.error # Null) =>
    cachedPilot' = Delete(cachedPilot, device.mac)

\* C15 (as stated): the entry goes from absent to present only when a read or
\* a write completes successfully; a failed read only deletes the entry and a
\* failed write never makes an absent entry present.
C15_EntryAppearsOnSuccessOnly ==
  [][/\ EntryAppears =>
          /\ last'.op \in {"timeout", "transport", "setDone"}
          /\ last'.error = Null
     /\ FailedReadOnlyDeletes
     /\ (last'.op = "setDone" /\ last'.error # Null) => ~EntryAppears]_vars

\* C15 (amended): the entry goes from absent to present only when a read or a
\* write completes successfully, or when a failed write restores the snapshot
\* it took at call time; a failed read only deletes the entry.
C15_EntryAppearsOnSuccessOrRollback ==
  [][/\ EntryAppears =>
          \/ /\ last'.op \in {"timeout", "transport", "setDone"}
             /\ last'.error = Null
          \/ /\ last'.op = "setDone"
             /\ last'.error # Null
             /\ cachedPilot'[device.mac] = sets[last'.id].oldPilot[1]
     /\ FailedReadOnlyDeletes]_vars

\* C15 witness: a failed get deleted the entry while a set was pending, and the
\* failure of that set has put its snapshot back.
C15_Witness ==
  /\ last.op = "setDone"
  /\ last.error # Null
  /\ ~last.hadEntry
  /\ sets[last.id].status = "done"
  /\ sets[last.id].nCallback = 1
  /\ device.mac \in DOMAIN cachedPilot

\* C18 (as stated): whenever the continuation runs as the callback of a set
\* with a null error on a tunable-white device, the cache holds an entry for
\* the device, so the colour refresh never reads an absent entry.
C18_RefreshFindsEntry ==
  (last.op = "setDone" /\ last.error = Null /\ device.isTW) =>
    /\ last.seen # <<>>
    /\ ~last.threw

\* the characteristics pushed by the last step, in order
PushedCharacteristics == [i \in 1..Len(last.sink) |-> last.sink[i].char]

\* C17 (as stated): the continuation always calls next exactly once with the
\* error it received; it pushes colour temperature (and saturation and hue on
\* a colour-capable device) only when the error is null and the device is
\* tunable-white, and pushes nothing otherwise.
C17_NextCalledOnce ==
  last.op = "setDone" =>
    /\ ~last.threw
    /\ last.next = <<last.error>>
    /\ PushedCharacteristics =
         IF last.error = Null /\ device.isTW
         THEN IF device.isRGB
              THEN <<"ColorTemperature", "Saturation", "Hue">>
              ELSE <<"ColorTemperature">>
         ELSE <<>>

\* the last step was taken by setPilot: the call or its completion handler
LastIsSet == last.op \in {"setPilot", "setDone"}

\* C20: setPilot never invokes the adaptive-lighting callback, and its
\* optimistic write keeps mac, rssi, src and sceneId of the entry unless the
\* partial change names them: a set that changes r, g, b or temp leaves a
\* non-zero cached sceneId as it was.
C20_SetKeepsOtherFields ==
  [][/\ LastIsSet' => ~last'.al
     /\ (last'.op = "setPilot" /\ device.mac \in DOMAIN cachedPilot) =>
          /\ device.mac \in DOMAIN cachedPilot'
          /\ \A f \in OtherFields \ DOMAIN last'.partial[1] :
               Field(cachedPilot'[device.mac], f)
                 = Field(cachedPilot[device.mac], f)]_vars

\* C20 witness: with the callback registered, a set changed the colour of an
\* entry in scene 4; the entry has the new colour and is still in scene 4, and
\* the callback was not invoked.
C20_Witness ==
  /\ last.op = "setPilot"
  /\ device.mac \in alRegistered
  /\ ~last.al
  /\ last.sent # <<>>
  /\ Field(last.partial[1], "b") = Val(255)
  /\ Field(cachedPilot[device.mac], "b") = Val(255)
  /\ Field(cachedPilot[device.mac], "sceneId") = Val(4)

====
